---- MODULE Spec2Model ----
(***************************************************************************)
(* Model of the block game's simulation state, its key handler onKeyDown   *)
(* and its frame stepper update() (src/src/main.cpp).                      *)
(*                                                                         *)
(* Every `float` of the program is modelled as an IEEE-754 binary32 value, *)
(* held as a sign-magnitude integer: the magnitude is the 31 low bits of   *)
(* the float's bit pattern, the integer's sign is the float's sign.  On    *)
(* finite floats the integer order is the float order, so the program's    *)
(* comparisons are integer comparisons.  +0 and -0 are one value (the      *)
(* program never divides and never inspects the sign bit).  Additions and  *)
(* multiplications round to nearest, ties to even, as the wasm f32         *)
(* operations the program compiles to.                                     *)
(***************************************************************************)
EXTENDS Integers, Sequences, FiniteSets, TLC

(***************************************************************************)
(* binary32 arithmetic                                                     *)
(***************************************************************************)
Pow2(n) == 2 ^ n

FAbs(b) == IF b < 0 THEN -b ELSE b

FNeg(b) == -b

FSign(b) == IF b < 0 THEN -1 ELSE 1

Max(a, b) == IF a >= b THEN a ELSE b

Min(a, b) == IF a <= b THEN a ELSE b

RECURSIVE BitLen(_)
BitLen(n) ==
    IF n = 0 THEN 0 ELSE CHOOSE r \in {1 + BitLen(h) : h \in {n \div 2}} : TRUE

\* The significand of a nonzero magnitude, normalised to 24 bits.
FMant(a) ==
    IF a \div Pow2(23) > 0
    THEN (a % Pow2(23)) + Pow2(23)
    ELSE (a % Pow2(23)) * Pow2(24 - BitLen(a % Pow2(23)))

\* The exponent e such that the magnitude a is FMant(a) * 2^e.
FExp(a) ==
    IF a \div Pow2(23) > 0
    THEN (a \div Pow2(23)) - 150
    ELSE -149 - (24 - BitLen(a % Pow2(23)))

\* m shifted right by k bits, the bits shifted out OR-ed into the last bit.
ShiftRightJam(m, k) ==
    IF k = 0 THEN m
    ELSE IF k >= 31 THEN (IF m # 0 THEN 1 ELSE 0)
    ELSE LET q == m \div Pow2(k)
             r == m % Pow2(k)
         IN  IF r # 0 /\ q % 2 = 0 THEN q + 1 ELSE q

FInfinity == 2139095040

\* Bit pattern of the magnitude m * 2^e, m < 2^24, m >= 2^23 unless e = -149.
FEncode(m, e) ==
    IF m < Pow2(23) THEN m
    ELSE IF e + 150 >= 255 THEN FInfinity
    ELSE (e + 150) * Pow2(23) + (m - Pow2(23))

\* The float nearest to sign * S * 2^E (ties to even), S < 2^29 having n
\* bits.
RoundTo(sign, S, E, n) ==
    IF S = 0 THEN 0
    ELSE LET k == Max(n - 24, -149 - E)
         IN  IF k <= 0
             THEN LET sh == Min(24 - n, E + 149)
                  IN  sign * FEncode(S * Pow2(sh), E - sh)
             ELSE IF k > 30 THEN 0
             ELSE LET q    == S \div Pow2(k)
                      r    == S % Pow2(k)
                      half == Pow2(k - 1)
                      up   == r > half \/ (r = half /\ q % 2 = 1)
                      m    == IF up THEN q + 1 ELSE q
                  IN  IF m = Pow2(24)
                      THEN sign * FEncode(Pow2(23), E + k + 1)
                      ELSE sign * FEncode(m, E + k)

\* The float nearest to sign * S * 2^E; S and its length are computed once.
RoundPack(sign, S, E) ==
    CHOOSE r \in UNION {{RoundTo(sign, s, E, n) : n \in {BitLen(s)}} :
                            s \in {S}} : TRUE

\* x + y in binary32.
FAddOf(x, y) ==
    IF x = 0 THEN y
    ELSE IF y = 0 THEN x
    ELSE LET big   == IF FAbs(x) >= FAbs(y) THEN x ELSE y
             small == IF FAbs(x) >= FAbs(y) THEN y ELSE x
             ma    == FMant(FAbs(big))
             ea    == FExp(FAbs(big))
             mb    == FMant(FAbs(small))
             eb    == FExp(FAbs(small))
             A     == ma * 8
             B     == ShiftRightJam(mb * 8, ea - eb)
             S     == IF FSign(big) = FSign(small) THEN A + B ELSE A - B
         IN  RoundPack(FSign(big), S, ea - 3)

\* x + y in binary32, each argument computed once.
FAdd(x, y) ==
    CHOOSE r \in {FAddOf(a, b) : a \in {x}, b \in {y}} : TRUE

\* x - y in binary32.
FSub(x, y) == FAdd(x, FNeg(y))

\* x * y in binary32.
FMulOf(x, y) ==
    IF x = 0 \/ y = 0 THEN 0
    ELSE LET ma  == FMant(FAbs(x))
             mb  == FMant(FAbs(y))
             ah  == ma \div 4096
             al  == ma % 4096
             bh  == mb \div 4096
             bl  == mb % 4096
             mid == ah * bl + al * bh
             lo0 == al * bl + (mid % 4096) * 4096
             hi  == ah * bh + (mid \div 4096) + (lo0 \div Pow2(24))
             lo  == lo0 % Pow2(24)
             S0  == hi * 8 + (lo \div Pow2(21))
             S   == IF lo % Pow2(21) # 0 /\ S0 % 2 = 0 THEN S0 + 1 ELSE S0
         IN  RoundPack(FSign(x) * FSign(y), S,
                       FExp(FAbs(x)) + FExp(FAbs(y)) + 21)

\* x * y in binary32, each argument computed once.
FMul(x, y) ==
    CHOOSE r \in {FMulOf(a, b) : a \in {x}, b \in {y}} : TRUE


\* The value of a float counted in whole quarters (towards zero): exact for
\* a multiple of 1/4.
Quarters(b) ==
    IF b = 0 THEN 0
    ELSE IF FExp(FAbs(b)) + 2 >= 0
         THEN FSign(b) * FMant(FAbs(b)) * Pow2(FExp(FAbs(b)) + 2)
         ELSE IF FExp(FAbs(b)) + 2 < -24 THEN 0
         ELSE FSign(b) * (FMant(FAbs(b)) \div Pow2(-(FExp(FAbs(b)) + 2)))

(***************************************************************************)
(* Program constants (bit patterns of the float literals)                  *)
(***************************************************************************)
scrollSpeed == 1017370378          \* 0.02f

spikeSpawnInterval == 1073741824   \* 2.0f

gravity == -1031127695             \* -0.06f

jumpVelocity == 1017370378         \* 0.02f

GroundLevel == -1053609165         \* -0.4f

SpawnX == 1067030938               \* 1.2f

DespawnX == -1067030938            \* -1.2f

FrameRateNormalizer == 1114636288  \* 60.0f

spikeWidth == 1028443341           \* 0.05f

spikeHeight == 1036831949          \* 0.1f

PlayerHalfExtent == 1028443341     \* 0.05f

SpaceKey == 32

F_1_0 == 1065353216                \* 1.0f
Millisecond == 981668463           \* float(1 / 1000.0): one unit of
                                   \* emscripten_get_now(), in seconds

(***************************************************************************)
(* Inputs and bounds                                                       *)
(***************************************************************************)
\* Frame times fed to update(): 0, 0.25, 0.5, 1.0, 1.5 and 4.0 seconds.
DtSet == {0, 1048576000, 1056964608, 1065353216, 1069547520, 1082130432}

\* Key codes delivered to onKeyDown: space, enter, 'A'.
KeyCodes == {32, 13, 65}

\* Number of frames explored.
MaxFrames == 5

(***************************************************************************)
(* State                                                                   *)
(***************************************************************************)
VARIABLES
    playerY,          \* static float playerY
    playerVelocity,   \* static float playerVelocity
    isOnGround,       \* static bool isOnGround
    spikeSpawnTimer,  \* static float spikeSpawnTimer
    spikes,           \* static std::vector<Spike> spikes
    frames,           \* history: number of update() calls so far
    elapsed,          \* history: sum of all deltaTime so far, in quarters
    spawnCount,       \* history: number of push_back calls so far
    jumps,            \* history: accepted jumps since the last ground
                      \*          contact or collision
    fed,              \* history: per spike, the number of frames it has
                      \*          lived if all of them had deltaTime = 1.0,
                      \*          else 0
    unitFrames,       \* history: number of update() calls so far if all
                      \*          of them had deltaTime = 1.0, else -1
    everJumped,       \* history: a jump has been accepted
    last,             \* history: the last call and what it did
    pcMain,           \* position of main(): "initContext", "initGL" or
                      \*          "mainLoop" (the frame loop is running)
    context,          \* EMSCRIPTEN_WEBGL_CONTEXT_HANDLE context
    madeCurrent,      \* the handle given to
                      \*          emscripten_webgl_make_context_current, 0 if
                      \*          it was never called
    tried,            \* history: the calls of
                      \*          emscripten_webgl_create_context, each with
                      \*          its attr.majorVersion v and its result r
    contextLog,       \* the lines initContext printed
    drawn,            \* the translation uniforms of the draw calls of the
                      \*          last render()
    coarse            \* history: every deltaTime so far was 0 or at least
                      \*          one millisecond

world == <<playerY, playerVelocity, isOnGround, spikeSpawnTimer, spikes>>

vars == <<playerY, playerVelocity, isOnGround, spikeSpawnTimer, spikes,
          frames, elapsed, spawnCount, jumps, fed, unitFrames, everJumped,
          last, pcMain, context, madeCurrent, tried, contextLog, drawn,
          coarse>>

\* What the game handlers never write: the startup state and the draw calls.
startup == <<pcMain, context, madeCurrent, tried, contextLog>>

Spike(x, y) == [x |-> x, y |-> y]

\* The record of a call: op and arg name the call and its argument;
\* wasOnGround is isOnGround before the call; jumped tells that onKeyDown
\* took the jump; prevY is playerY before the call; for update, clamped,
\* spawned and collided tell which branches ran, before is the spike list on
\* entry, advanced is the spike list after the
\* move loop, pruned (with histories prunedFed) the spikes erased by the
\* remove_if/erase, tested and testY the spike list and the player position
\* the collision loop ran on, cleared the spikes dropped by spikes.clear().
NoFrame == [op |-> "init", arg |-> 0, wasOnGround |-> TRUE, prevY |-> 0,
            jumped |-> FALSE, clamped |-> FALSE,
            spawned |-> FALSE, collided |-> FALSE, before |-> <<>>,
            advanced |-> <<>>,
            pruned |-> <<>>, prunedFed |-> <<>>, tested |-> <<>>,
            testY |-> 0, cleared |-> <<>>]

\* The simulation state as the static initialisers leave it.
InitSimulation ==
    /\ playerY = 0
    /\ playerVelocity = 0
    /\ isOnGround = TRUE
    /\ spikeSpawnTimer = 0
    /\ spikes = <<>>
    /\ jumps = 0
    /\ fed = <<>>
    /\ everJumped = FALSE
    /\ last = NoFrame
    /\ drawn = <<>>
    /\ coarse = TRUE

\* The simulation state with the frame counters at zero.
InitGame ==
    /\ InitSimulation
    /\ frames = 0
    /\ elapsed = 0
    /\ spawnCount = 0
    /\ unitFrames = 0

\* The state in which the frame loop starts, after a startup whose first
\* emscripten_webgl_create_context call returned the handle 1.
Init ==
    /\ InitGame
    /\ pcMain = "mainLoop"
    /\ context = 1
    /\ madeCurrent = 1
    /\ tried = <<[v |-> 2, r |-> 1]>>
    /\ contextLog = <<"WebGL context created successfully.">>

(***************************************************************************)
(* onKeyDown                                                               *)
(***************************************************************************)
\* JumpAccepted with the wrong key code.
JumpAcceptedWrongKey(keyCode, onGround) == keyCode = 13 /\ onGround

\* JumpAccepted without the ground test (double jump).
JumpAcceptedAlways(keyCode, onGround) == keyCode = SpaceKey

\* JumpAccepted without the key test.
JumpAcceptedAnyKey(keyCode, onGround) == onGround

\* The jump is taken: the key is space and the player is on the ground.
JumpAccepted(keyCode, onGround) == keyCode = SpaceKey /\ onGround

onKeyDown(keyCode) ==
    /\ playerVelocity' = IF JumpAccepted(keyCode, isOnGround)
                         THEN jumpVelocity ELSE playerVelocity
    /\ isOnGround' = IF JumpAccepted(keyCode, isOnGround)
                     THEN FALSE ELSE isOnGround
    /\ UNCHANGED <<playerY, spikeSpawnTimer, spikes>>
    /\ jumps' = IF JumpAccepted(keyCode, isOnGround) THEN jumps + 1 ELSE jumps
    /\ last' = [NoFrame EXCEPT !.op = "onKeyDown", !.arg = keyCode,
                               !.wasOnGround = isOnGround,
                               !.prevY = playerY,
                               !.jumped = JumpAccepted(keyCode, isOnGround)]
    /\ everJumped' = (everJumped \/ JumpAccepted(keyCode, isOnGround))
    /\ UNCHANGED <<frames, elapsed, spawnCount, fed, unitFrames>>
    /\ UNCHANGED <<startup, drawn, coarse>>

(***************************************************************************)
(* update                                                                  *)
(***************************************************************************)
\* IntegrateVelocity with = in place of +=.
IntegrateVelocityAssign(v, deltaTime) == FMul(gravity, deltaTime)

\* playerVelocity += gravity * deltaTime
IntegrateVelocity(v, deltaTime) == FAdd(v, FMul(gravity, deltaTime))

\* playerY += playerVelocity
IntegratePosition(y, v) == FAdd(y, v)

\* BelowGround with the wrong floor: the test compares against -1.2f.
BelowGroundWrongFloor(y) == y < DespawnX

\* if (playerY < -0.4f)
BelowGround(y) == y < GroundLevel

\* GroundFlagAfterClamp without isOnGround = true.
GroundFlagNeverSet(clamp, onGround) == onGround

\* GroundFlagAfterClamp with isOnGround = true outside the if.
GroundFlagAlwaysSet(clamp, onGround) == TRUE

\* isOnGround after the ground test: set in the branch, else left alone.
GroundFlagAfterClamp(clamp, onGround) == clamp \/ onGround

\* SpawnDue with half the interval.
SpawnDueHalfInterval(timer) == timer >= F_1_0

\* SpawnDue with > in place of >=.
SpawnDueStrict(timer) == timer > spikeSpawnInterval

\* if (spikeSpawnTimer >= spikeSpawnInterval)
SpawnDue(timer) == timer >= spikeSpawnInterval

\* TimerAfterSpawn without the reset.
TimerAfterSpawnKeep(timer) == timer

\* TimerAfterSpawn keeping the time past the interval:
\* spikeSpawnTimer -= spikeSpawnInterval.
TimerAfterSpawnCarry(timer) == FSub(timer, spikeSpawnInterval)

\* spikeSpawnTimer = 0.0f
TimerAfterSpawn(timer) == 0

\* AdvanceX with += in place of -=.
AdvanceXRight(x, deltaTime) ==
    FAdd(x, FMul(FMul(scrollSpeed, deltaTime), FrameRateNormalizer))

\* AdvanceX without the factor 60.0f.
AdvanceXUnscaled(x, deltaTime) == FSub(x, FMul(scrollSpeed, deltaTime))

\* spike.x -= scrollSpeed * deltaTime * 60.0f
AdvanceX(x, deltaTime) ==
    FSub(x, FMul(FMul(scrollSpeed, deltaTime), FrameRateNormalizer))

\* IsOffScreen with the threshold doubled: spikes live on down to -2.4.
IsOffScreenLate(s) == s.x < FAdd(DespawnX, DespawnX)

\* IsOffScreen with the sign of the threshold lost: s.x < 1.2f.
IsOffScreenEarly(s) == s.x < SpawnX

\* [](const Spike &s){ return s.x < -1.2f; }
IsOffScreen(s) == s.x < DespawnX

\* RemoveIfLoop without the move: the kept elements are counted but not
\* copied down onto the freed positions.
RECURSIVE RemoveIfLoopNoMove(_, _, _)
RemoveIfLoopNoMove(t, first, i) ==
    IF i > Len(t) THEN SubSeq(t, 1, first - 1)
    ELSE IF IsOffScreen(t[i]) THEN RemoveIfLoopNoMove(t, first, i + 1)
    ELSE RemoveIfLoopNoMove(t, first + 1, i + 1)

\* std::remove_if(first, last, pred): the elements from position i on that
\* do not satisfy the predicate are moved, in order, onto the positions from
\* first on; the elements before the returned logical end are the result.
RECURSIVE RemoveIfLoop(_, _, _)
RemoveIfLoop(t, first, i) ==
    IF i > Len(t) THEN SubSeq(t, 1, first - 1)
    ELSE IF IsOffScreen(t[i]) THEN RemoveIfLoop(t, first, i + 1)
    ELSE RemoveIfLoop([t EXCEPT ![first] = t[i]], first + 1, i + 1)

\* spikes.erase(std::remove_if(spikes.begin(), spikes.end(), pred),
\*              spikes.end())
EraseRemoveIf(s) == RemoveIfLoop(s, 1, 1)

\* bool collisionX = fabs(spike.x - 0.0f) < (spikeWidth + 0.05f)
CollisionX(s) == FAbs(FSub(s.x, 0)) < FAdd(spikeWidth, PlayerHalfExtent)

\* bool collisionY = fabs(spike.y - playerY) < (spikeHeight + 0.05f)
CollisionY(s, y) == FAbs(FSub(s.y, y)) < FAdd(spikeHeight, PlayerHalfExtent)

Collides(s, y) == CollisionX(s) /\ CollisionY(s, y)

\* The collision loop: the index of the first spike from i on that overlaps
\* the player, 0 if none does.
RECURSIVE FirstHit(_, _, _)
FirstHit(s, y, i) ==
    IF i > Len(s) THEN 0
    ELSE IF Collides(s[i], y) THEN i
    ELSE FirstHit(s, y, i + 1)

\* CollisionReset without the spikes.clear().
CollisionResetKeepsSpikes(y, v, onGround, s) ==
    [y |-> GroundLevel, v |-> 0, onGround |-> TRUE, spikes |-> s]

\* The collision branch: playerY = -0.4f; playerVelocity = 0.0f;
\* isOnGround = true; spikes.clear()
CollisionReset(y, v, onGround, s) ==
    [y |-> GroundLevel, v |-> 0, onGround |-> TRUE, spikes |-> <<>>]

\* The frame stepper.  Each intermediate value of the C++ function is bound
\* once, in program order.
update(deltaTime) ==
    /\ \E v1 \in {IntegrateVelocity(playerVelocity, deltaTime)} :
       \E y1 \in {IntegratePosition(playerY, v1)} :
       \E clamp \in {BelowGround(y1)} :
       \E y2 \in {IF clamp THEN GroundLevel ELSE y1} :
       \E t1 \in {FAdd(spikeSpawnTimer, deltaTime)} :
       \E spawn \in {SpawnDue(t1)} :
       \* each spike carries its history n along
       \E z0 \in {[i \in 1..Len(spikes) |->
                     [x |-> spikes[i].x, y |-> spikes[i].y, n |-> fed[i]]]} :
       \E z1 \in {IF spawn
                  THEN Append(z0, [x |-> SpawnX, y |-> GroundLevel, n |-> -1])
                  ELSE z0} :
       \E z2 \in {[i \in 1..Len(z1) |->
                     [x |-> AdvanceX(z1[i].x, deltaTime), y |-> z1[i].y,
                      n |-> IF deltaTime # F_1_0 \/ z1[i].n = 0 THEN 0
                            ELSE IF z1[i].n = -1 THEN 1
                            ELSE z1[i].n + 1]]} :
       \E z3 \in {EraseRemoveIf(z2)} :
       \E gone \in {SelectSeq(z2, IsOffScreen)} :
       \E s3 \in {[i \in 1..Len(z3) |-> Spike(z3[i].x, z3[i].y)]} :
       \E h \in {FirstHit(s3, y2, 1)} :
       \E w \in {IF h > 0
                 THEN CollisionReset(y2, IF clamp THEN 0 ELSE v1,
                          GroundFlagAfterClamp(clamp, isOnGround), s3)
                 ELSE [y |-> y2, v |-> IF clamp THEN 0 ELSE v1,
                       onGround |-> GroundFlagAfterClamp(clamp, isOnGround),
                       spikes |-> s3]} :
          /\ playerY' = w.y
          /\ playerVelocity' = w.v
          /\ isOnGround' = w.onGround
          /\ spikeSpawnTimer' = IF spawn THEN TimerAfterSpawn(t1) ELSE t1
          /\ spikes' = w.spikes
          /\ fed' = IF Len(w.spikes) = Len(z3)
                    THEN [i \in 1..Len(z3) |-> z3[i].n] ELSE <<>>
          \* the counters count the first MaxFrames frames
          /\ frames' = IF frames < MaxFrames THEN frames + 1 ELSE frames
          /\ elapsed' = IF frames < MaxFrames
                        THEN elapsed + Quarters(deltaTime) ELSE elapsed
          /\ spawnCount' = IF frames < MaxFrames /\ spawn
                           THEN spawnCount + 1 ELSE spawnCount
          /\ jumps' = IF clamp \/ h > 0 THEN 0 ELSE jumps
          /\ unitFrames' = IF unitFrames >= 0 /\ deltaTime = F_1_0
                              /\ frames < MaxFrames
                           THEN unitFrames + 1 ELSE -1
          /\ coarse' = (coarse /\ (deltaTime = 0 \/ deltaTime >= Millisecond))
          /\ UNCHANGED <<everJumped, startup, drawn>>
          /\ last' = [op |-> "update", arg |-> deltaTime,
                      wasOnGround |-> isOnGround, prevY |-> playerY,
                      jumped |-> FALSE,
                      clamped |-> clamp, spawned |-> spawn,
                      collided |-> h > 0,
                      before |-> spikes,
                      advanced |->
                          [i \in 1..Len(z2) |-> Spike(z2[i].x, z2[i].y)],
                      pruned |->
                          [i \in 1..Len(gone) |-> Spike(gone[i].x, gone[i].y)],
                      prunedFed |-> [i \in 1..Len(gone) |-> gone[i].n],
                      tested |-> s3, testY |-> y2,
                      cleared |-> IF h > 0 THEN s3 ELSE <<>>]

(***************************************************************************)
(* render, mainLoop                                                        *)
(***************************************************************************)
\* render with the move of the spikes repeated in its draw loop.
renderMovesSpikes ==
    /\ last.op = "update"
    /\ drawn' = <<Spike(0, playerY)>> \o spikes
    /\ spikes' = [i \in 1..Len(spikes) |->
                     Spike(AdvanceX(spikes[i].x, F_1_0), spikes[i].y)]
    /\ last' = [last EXCEPT !.op = "render"]
    /\ UNCHANGED <<playerY, playerVelocity, isOnGround, spikeSpawnTimer>>
    /\ UNCHANGED <<frames, elapsed, spawnCount, jumps, fed, unitFrames,
                   everJumped, startup, coarse>>

\* render(), which mainLoop calls right after update(): one draw call for
\* the player with translation (0, playerY), then one per spike, in list
\* order, with translation (spike.x, spike.y).
render ==
    /\ last.op = "update"
    /\ drawn' = <<Spike(0, playerY)>> \o spikes
    /\ last' = [last EXCEPT !.op = "render"]
    /\ UNCHANGED world
    /\ UNCHANGED <<frames, elapsed, spawnCount, jumps, fed, unitFrames,
                   everJumped, startup, coarse>>

KeyEvent == \E keyCode \in KeyCodes : onKeyDown(keyCode)

Frame == frames < MaxFrames /\ \E deltaTime \in DtSet : update(deltaTime)

Next == KeyEvent \/ Frame

\* The frame loop without render(), which writes no variable of the
\* simulation.
Spec == Init /\ [][Next]_vars

(***************************************************************************)
(* The frame loop with frame times below the resolution of the floats      *)
(***************************************************************************)
\* 0, 2^-25, 2^-24, the float just below 2.0, 0.5, 1.0, 1.5.  currentTime
\* is a double, so float(currentTime - lastFrameTime) can be any of them.
DtFine == {0, 855638016, 864026624, 1073741823,
           1056964608, 1065353216, 1069547520}

FineFrames == 4

FrameFine == frames < FineFrames /\ \E deltaTime \in DtFine : update(deltaTime)

NextFine == KeyEvent \/ FrameFine

SpecFine == Init /\ [][NextFine]_vars

(***************************************************************************)
(* The frame loop for ever, with positive frame times                      *)
(***************************************************************************)
\* Frame times bounded below by 0.25: 0.25, 1.0 and 4.0.
DtLive == {1048576000, 1065353216, 1082130432}

\* The frame counters are full from the start, so they stay as they are.
InitLive ==
    /\ InitSimulation
    /\ frames = MaxFrames
    /\ elapsed = 0
    /\ spawnCount = 0
    /\ unitFrames = -1
    /\ pcMain = "mainLoop"
    /\ context = 1
    /\ madeCurrent = 1
    /\ tried = <<[v |-> 2, r |-> 1]>>
    /\ contextLog = <<"WebGL context created successfully.">>

FrameLive == \E deltaTime \in DtLive : update(deltaTime)

NextLive == KeyEvent \/ FrameLive

\* emscripten_set_main_loop(mainLoop, 0, 1) has the browser call mainLoop on
\* every animation frame: a frame is always possible and keeps being taken.
SpecLive == InitLive /\ [][NextLive]_vars /\ WF_vars(FrameLive)

(***************************************************************************)
(* main: initContext, initGL, then the frame loop with render              *)
(***************************************************************************)
\* Results of emscripten_webgl_create_context: an error code, the null
\* handle, a handle.
ContextResults == {-1, 0, 1}

\* Number of frames explored after the startup.
MainFrames == 3

\* initContext making the context current whether or not it was created.
initContextAlwaysCurrent(r2, r1) ==
    /\ pcMain = "initContext"
    /\ \E c \in {IF r2 <= 0 THEN r1 ELSE r2} :
          /\ context' = c
          /\ tried' = IF r2 <= 0
                      THEN <<[v |-> 2, r |-> r2], [v |-> 1, r |-> r1]>>
                      ELSE <<[v |-> 2, r |-> r2]>>
          /\ contextLog' =
                (IF r2 <= 0
                 THEN <<"WebGL 2.0 not supported. Trying WebGL 1.0...">>
                 ELSE <<>>)
                \o (IF c <= 0
                    THEN <<"Failed to create WebGL context!">>
                    ELSE <<"WebGL context created successfully.">>)
          /\ madeCurrent' = c
    /\ pcMain' = "initGL"
    /\ UNCHANGED <<world, frames, elapsed, spawnCount, jumps, fed,
                   unitFrames, everJumped, last, drawn, coarse>>

\* initContext(), r2 and r1 being what emscripten_webgl_create_context
\* returns for majorVersion 2 and, if it is called again, for majorVersion 1.
initContext(r2, r1) ==
    /\ pcMain = "initContext"
    /\ \E c \in {IF r2 <= 0 THEN r1 ELSE r2} :
          /\ context' = c
          /\ tried' = IF r2 <= 0
                      THEN <<[v |-> 2, r |-> r2], [v |-> 1, r |-> r1]>>
                      ELSE <<[v |-> 2, r |-> r2]>>
          /\ contextLog' =
                (IF r2 <= 0
                 THEN <<"WebGL 2.0 not supported. Trying WebGL 1.0...">>
                 ELSE <<>>)
                \o (IF c <= 0
                    THEN <<"Failed to create WebGL context!">>
                    ELSE <<"WebGL context created successfully.">>)
          /\ madeCurrent' = IF c <= 0 THEN madeCurrent ELSE c
    /\ pcMain' = "initGL"
    /\ UNCHANGED <<world, frames, elapsed, spawnCount, jumps, fed,
                   unitFrames, everJumped, last, drawn, coarse>>

\* initGL() and emscripten_set_main_loop(mainLoop, 0, 1): neither reads
\* context nor returns early; the frame loop runs from here on.
initGL ==
    /\ pcMain = "initGL"
    /\ pcMain' = "mainLoop"
    /\ UNCHANGED <<world, frames, elapsed, spawnCount, jumps, fed,
                   unitFrames, everJumped, last, drawn, coarse>>
    /\ UNCHANGED <<context, madeCurrent, tried, contextLog>>

\* The state main() starts in.
InitMain ==
    /\ InitGame
    /\ pcMain = "initContext"
    /\ context = 0
    /\ madeCurrent = 0
    /\ tried = <<>>
    /\ contextLog = <<>>

\* mainLoop(): update() then render(), no key event in between.
NextMain ==
    \/ \E r2, r1 \in ContextResults : initContext(r2, r1)
    \/ initGL
    \/ /\ pcMain = "mainLoop"
       /\ last.op # "update"
       /\ frames < MainFrames
       /\ Frame
    \/ /\ pcMain = "mainLoop"
       /\ render
    \/ /\ pcMain = "mainLoop"
       /\ last.op # "update"
       /\ KeyEvent

SpecMain == InitMain /\ [][NextMain]_vars

(***************************************************************************)
(* Properties                                                              *)
(***************************************************************************)
AfterFrame == last.op = "update"

\* C1: in every state, so at the end of every frame and after every key
\* event between frames, the player's position is at least the ground
\* level -0.4.
C1_PositionNeverBelowGround == playerY >= GroundLevel

\* A frame in which the ground clamp acted.
C1_Witness == AfterFrame /\ last.clamped /\ playerY = GroundLevel

\* C2: after a frame in which some spike that survived the pruning overlaps
\* the player at collision-test time, the world is in the reset state:
\* position at ground level, velocity 0, on the ground, no spikes.
C2_CollisionResets ==
    (AfterFrame /\ \E i \in 1..Len(last.tested) :
                       Collides(last.tested[i], last.testY))
    => /\ playerY = GroundLevel
       /\ playerVelocity = 0
       /\ isOnGround
       /\ spikes = <<>>

\* A frame with an overlap, found while the player was still in the air.
C2_Witness ==
    /\ AfterFrame
    /\ \E i \in 1..Len(last.tested) : Collides(last.tested[i], last.testY)
    /\ last.testY # GroundLevel

\* C3: every spike in the list has x at least the despawn threshold -1.2.
C3_SurvivorsInsideThreshold ==
    \A i \in 1..Len(spikes) : spikes[i].x >= DespawnX

\* A frame that erased a spike and kept another.
C3_Witness == AfterFrame /\ last.pruned # <<>> /\ spikes # <<>>

\* The spikes removed from the list by the last frame.
Removed == last.pruned \o last.cleared

\* C4 as stated: every spike removed by a frame had x below the despawn
\* threshold when it was removed.
C4_Original == \A i \in 1..Len(Removed) : Removed[i].x < DespawnX

\* C4 amended: the spikes a frame removes are those erased by the pruning,
\* which all had x < -1.2, and those dropped by a collision reset, which all
\* had x >= -1.2 (they had survived the pruning of that frame), the first of
\* them overlapping the player.
C4_RemovedByPruneOrReset ==
    AfterFrame =>
        /\ Len(last.advanced) = Len(Removed) + Len(spikes)
        /\ \A i \in 1..Len(last.pruned) : last.pruned[i].x < DespawnX
        /\ \A i \in 1..Len(last.cleared) : last.cleared[i].x >= DespawnX
        /\ last.cleared # <<>> =>
              \E i \in 1..Len(last.cleared) :
                  FAbs(last.cleared[i].x) < FAdd(spikeWidth, PlayerHalfExtent)

\* A frame whose collision reset removed a spike.
C4_Witness == AfterFrame /\ last.cleared # <<>>

\* The spawn interval 2.0 s, in quarters of a second.
IntervalQuarters == Quarters(spikeSpawnInterval)

C6_AirborneJumpIsNoOp ==
    [][(last'.op = "onKeyDown" /\ last'.arg = SpaceKey /\ ~isOnGround)
       => UNCHANGED world]_vars

\* A space key that was delivered in the air, with a velocity that is not
\* the jump velocity.
C6_Witness ==
    /\ last.op = "onKeyDown"
    /\ last.arg = SpaceKey
    /\ ~last.wasOnGround
    /\ ~isOnGround
    /\ playerVelocity # jumpVelocity

\* C7: a space key delivered while the player is on the ground sets the
\* velocity to the jump velocity 0.02 and the ground flag to false, and
\* leaves position, spikes and spawn timer unchanged.
C7_GroundedJump ==
    [][(last'.op = "onKeyDown" /\ last'.arg = SpaceKey /\ isOnGround)
       => /\ playerVelocity' = jumpVelocity
          /\ ~isOnGround'
          /\ UNCHANGED <<playerY, spikes, spikeSpawnTimer>>]_vars

\* An accepted jump taken while the player was moving (the position is
\* neither the initial one nor the ground).
C7_Witness ==
    /\ last.op = "onKeyDown"
    /\ last.arg = SpaceKey
    /\ last.wasOnGround
    /\ playerVelocity = jumpVelocity
    /\ playerY # 0
    /\ playerY # GroundLevel

\* C8: the ground flag goes from true to false only by an accepted jump
\* (space key), and from false to true only in a frame whose ground clamp or
\* collision reset ran; so at most one jump is accepted between two frames
\* with ground contact or collision.
C8_GroundFlagStateMachine ==
    /\ [](jumps <= 1)
    /\ [][/\ (isOnGround /\ ~isOnGround')
             => (last'.op = "onKeyDown" /\ last'.arg = SpaceKey
                 /\ playerVelocity' = jumpVelocity)
          /\ (~isOnGround /\ isOnGround')
             => (last'.op = "update"
                 /\ (last'.clamped \/ last'.collided)
                 /\ playerY' = GroundLevel /\ playerVelocity' = 0)]_vars

\* The player, in the air after a jump, is put back on the ground by the
\* ground clamp of a frame.
C8_Witness ==
    /\ AfterFrame
    /\ ~last.wasOnGround
    /\ isOnGround
    /\ last.clamped
    /\ ~last.collided

\* C9: a key other than space changes nothing of the world.
C9_OtherKeysIgnored ==
    [][(last'.op = "onKeyDown" /\ last'.arg # SpaceKey)
       => UNCHANGED world]_vars

\* A key other than space, delivered while the player is on the ground.
C9_Witness ==
    /\ last.op = "onKeyDown"
    /\ last.arg # SpaceKey
    /\ last.wasOnGround
    /\ isOnGround
    /\ playerVelocity # jumpVelocity

\* The x of a spike spawned at 1.2f after its first, second and third frame
\* of deltaTime 1.0: each frame subtracts the float nearest to
\* 0.02f * 60 = 1.19999997..., which is 1.19999993 (one unit in the last
\* place below 1.2f), so x is 2^-23 = 0.00000012, then -1.19999981, then
\* -2.39999962.
ScenarioX == <<872415232, -1067030936, -1075419544>>

\* The spike the last frame spawned, as the move loop left it.
Newcomer == last.advanced[Len(last.advanced)]

\* C10 as stated: a spike spawned at x = 1.2 in a frame of deltaTime 1.0 is
\* pruned, with x < -1.2, after that first frame.
C10_Original ==
    (AfterFrame /\ last.spawned /\ last.arg = F_1_0)
    => Newcomer.x < DespawnX

\* C10 amended: a spike spawned at x = 1.2 and fed deltaTime 1.0 frames has
\* its x decreased by 1.19999993 (about 1.2) per frame from its spawn frame
\* on: x is about 0 after its first frame and about -1.2, still not below
\* the threshold, after its second; it survives the pruning of both and is
\* pruned in its third frame, with x about -2.4.
C10_ScenarioPrunedInThirdFrame ==
    /\ \A i \in 1..Len(spikes) :
          fed[i] > 0 => /\ fed[i] <= 2
                        /\ spikes[i].x = ScenarioX[fed[i]]
                        /\ spikes[i].x >= DespawnX
    /\ \A j \in 1..Len(last.pruned) :
          last.prunedFed[j] > 0 => /\ last.prunedFed[j] = 3
                                   /\ last.pruned[j].x = ScenarioX[3]
                                   /\ last.pruned[j].x < DespawnX
    /\ (AfterFrame /\ last.spawned /\ last.arg = F_1_0)
          => Newcomer.x = ScenarioX[1]

\* A frame that pruned a spike in its third frame of deltaTime 1.0.
C10_Witness ==
    /\ AfterFrame
    /\ \E j \in 1..Len(last.pruned) : last.prunedFed[j] = 3

\* The floats 1.0, 2.0, 3.0.
FloatOf == <<1065353216, 1073741824, 1077936128>>

\* C11: from the initial state, while no jump has been accepted, the n-th
\* consecutive frame of deltaTime 1.0 leaves the velocity at n * gravity for
\* n = 1, 2, 3, with the position strictly below the one of the frame
\* before; the fourth frame reaches the ground and is clamped there (the
\* position is the ground level, the velocity 0), and the position stays
\* there.
C11_UnitFramesAccumulateGravity ==
    (AfterFrame /\ ~everJumped /\ unitFrames >= 1)
    => IF unitFrames <= 3
       THEN /\ playerVelocity = FMul(FloatOf[unitFrames], gravity)
            /\ playerY < last.prevY
            /\ playerY > GroundLevel
            /\ ~last.clamped
       ELSE /\ playerY = GroundLevel
            /\ playerVelocity = 0
            /\ last.clamped
            /\ playerY <= last.prevY

\* Three frames of deltaTime 1.0 from the start, without a jump.
C11_Witness == AfterFrame /\ ~everJumped /\ unitFrames = 3

\* C12: fed only frames of deltaTime 1.0 from the start, update spawns a
\* spike in exactly the even-numbered frames, so the number of spawns after
\* n frames is n div 2: 2 after four frames.
C12_UnitFramesSpawnEverySecond ==
    (AfterFrame /\ unitFrames >= 1)
    => /\ spawnCount = unitFrames \div 2
       /\ last.spawned <=> (unitFrames % 2 = 0)
       /\ unitFrames = 4 => spawnCount = 2

\* Four frames of deltaTime 1.0 from the start.
C12_Witness == AfterFrame /\ unitFrames = 4 /\ spawnCount = 2

\* A spike at or right of the despawn threshold.
InsideThreshold(s) == s.x >= DespawnX

C14_RenderLeavesWorld ==
    [][last'.op = "render" => UNCHANGED world]_vars

\* A render() that drew the player and a spike.
C14_Witness ==
    /\ last.op = "render"
    /\ Len(drawn) = 2
    /\ drawn = <<Spike(0, playerY)>> \o spikes

\* C15: initContext tries majorVersion 2 first and majorVersion 1 only if
\* the first call failed (result <= 0); context is the result of the last
\* call; the context is made current only if that result is a handle; when
\* both calls fail the last line printed is the failure message, nothing is
\* made current, and main goes on to initGL, which can run, and to the frame
\* loop.
C15_ContextFallback ==
    pcMain # "initContext" =>
        /\ Len(tried) \in {1, 2}
        /\ tried[1].v = 2
        /\ Len(tried) = 2 <=> tried[1].r <= 0
        /\ Len(tried) = 2 => tried[2].v = 1
        /\ context = tried[Len(tried)].r
        /\ madeCurrent = (IF context > 0 THEN context ELSE 0)
        /\ (\A i \in 1..Len(tried) : tried[i].r <= 0) =>
              /\ contextLog[Len(contextLog)]
                    = "Failed to create WebGL context!"
              /\ madeCurrent = 0
        /\ pcMain \in {"initGL", "mainLoop"}
        /\ pcMain = "initGL" => ENABLED initGL

\* Both calls failed and the frame loop has run a frame all the same.
C15_Witness ==
    /\ Len(tried) = 2
    /\ tried[1].r <= 0
    /\ tried[2].r <= 0
    /\ pcMain = "mainLoop"
    /\ last.op = "render"
    /\ frames >= 1

\* C16 as stated: each step of an obstacle moves it left, strictly so
\* whenever deltaTime > 0, and no obstacle is ever right of the spawn x.
C16_Original ==
    AfterFrame =>
        /\ \A i \in 1..Len(last.before) :
              /\ last.advanced[i].x <= last.before[i].x
              /\ last.arg > 0 => last.advanced[i].x < last.before[i].x
        /\ \A i \in 1..Len(last.advanced) : last.advanced[i].x <= SpawnX

\* C16: in each frame every obstacle already in the list ends at an x <= its
\* x at the end of the frame before, strictly smaller when deltaTime is at
\* least a millisecond (a step below half a unit in the last place of x
\* leaves x as it is), and no obstacle is ever right of the spawn x.
C16_ObstaclesMoveLeft ==
    /\ AfterFrame =>
        /\ Len(last.advanced)
              = Len(last.before) + (IF last.spawned THEN 1 ELSE 0)
        /\ \A i \in 1..Len(last.before) :
              /\ last.advanced[i].x <= last.before[i].x
              /\ last.arg >= Millisecond
                    => last.advanced[i].x < last.before[i].x
        /\ \A i \in 1..Len(last.advanced) : last.advanced[i].x <= SpawnX
    /\ \A i \in 1..Len(spikes) : spikes[i].x <= SpawnX

\* An obstacle that was in the list and stayed in it through a frame of at
\* least a millisecond.
C16_Witness ==
    /\ AfterFrame
    /\ last.arg >= Millisecond
    /\ ~last.spawned
    /\ Len(last.before) = 1
    /\ Len(spikes) = 1
    /\ spikes[1].x < last.before[1].x

\* C17 as stated: the ground flag is set only at ground level, in the
\* initial state too, so a jump is accepted only from the ground.
C17_OnGroundMeansAtGroundLevel ==
    /\ isOnGround => playerY = GroundLevel
    /\ last.jumped => last.prevY = GroundLevel

\* C18 as stated: never more than one obstacle at the end of a frame.
C18_Original == AfterFrame => Len(spikes) <= 1

\* C18: as long as every deltaTime was 0 or at least a millisecond, the list
\* holds at most one obstacle at the end of every frame, the one before
\* being pruned no later than the frame that spawns the next.
C18_AtMostOneObstacle ==
    (AfterFrame /\ coarse) =>
        /\ Len(spikes) <= 1
        /\ last.spawned => \A i \in 1..Len(last.before) :
                              IsOffScreen(last.advanced[i])

\* A frame of such a run that spawns an obstacle and prunes the one before.
C18_Witness ==
    /\ AfterFrame
    /\ coarse
    /\ last.spawned
    /\ Len(last.before) = 1
    /\ Len(last.pruned) = 1
    /\ Len(spikes) = 1

\* C19: at the end of every frame 0 <= spikeSpawnTimer < spikeSpawnInterval,
\* and a frame appends at most one obstacle, also when deltaTime is two
\* intervals long.
C19_TimerBelowInterval ==
    /\ spikeSpawnTimer >= 0
    /\ spikeSpawnTimer < spikeSpawnInterval
    /\ AfterFrame =>
        /\ Len(last.advanced) <= Len(last.before) + 1
        /\ Len(last.advanced) = Len(last.before) + 1 <=> last.spawned
        /\ last.spawned => spikeSpawnTimer = 0

\* A frame of 4.0 seconds that appended one obstacle.
C19_Witness ==
    /\ AfterFrame
    /\ last.arg = FAdd(spikeSpawnInterval, spikeSpawnInterval)
    /\ last.spawned
    /\ Len(last.advanced) = Len(last.before) + 1
    /\ spikeSpawnTimer = 0

====
